---- MODULE Spec2Model ----
(***************************************************************************)
(* Model of functions/index.js: the callable askFollowup handler and the   *)
(* healthCheck endpoint.                                                   *)
(*                                                                         *)
(* askFollowup is an async function with two awaits, so one invocation     *)
(* runs as three atomic segments (JavaScript runs a segment to completion  *)
(* before another callback starts):                                        *)
(*   Invoke          lines 29-63  validation, prompt, provider call issued *)
(*   ProviderSettles lines 63-78  text extraction, document, add() issued  *)
(*   StoreSettles    lines 78-89  the write settles, the handler returns   *)
(* Every throw inside the try block is routed through the catch block of   *)
(* lines 91-99.  Invocations interleave at the awaits.                     *)
(***************************************************************************)
EXTENDS Integers, Sequences, FiniteSets, Bags, TLC

(***************************************************************************)
(* Bounds of the model.                                                    *)
(***************************************************************************)
NumInvocations == 2
MaxBullets == 2

(***************************************************************************)
(* Program constants.                                                      *)
(***************************************************************************)
MaxQuestionLength == 500
MaxTokens == 1024

(***************************************************************************)
(* Strings.  A string is a sequence of chunks; chunk [s, n] stands for the *)
(* string s repeated n times, so that a 501-character question is a small *)
(* value.  A chunk is either one whitespace character repeated or a string *)
(* that neither begins nor ends with whitespace where trim() inspects it.  *)
(***************************************************************************)
T(str) == <<[s |-> str, n |-> 1]>>

Rep(ch, count) == IF count = 0 THEN <<>> ELSE <<[s |-> ch, n |-> count]>>

RECURSIVE StrLen(_)
StrLen(text) ==
  IF text = <<>> THEN 0
  ELSE Len(Head(text).s) * Head(text).n + StrLen(Tail(text))

\* The characters String.prototype.trim strips (WhiteSpace and LineTerminator).
WhiteSpace == {" ", "\t", "\n", "\r"}

RECURSIVE TrimStart(_)
TrimStart(text) ==
  IF text # <<>> /\ Head(text).s \in WhiteSpace THEN TrimStart(Tail(text)) ELSE text

RECURSIVE TrimEnd(_)
TrimEnd(text) ==
  IF text # <<>> /\ text[Len(text)].s \in WhiteSpace
  THEN TrimEnd(SubSeq(text, 1, Len(text) - 1))
  ELSE text

Trim(text) == TrimEnd(TrimStart(text))

(***************************************************************************)
(* JavaScript values, tagged by type.                                      *)
(***************************************************************************)
Undefined == [t |-> "undefined"]
Null == [t |-> "null"]
Str(text) == [t |-> "string", s |-> text]
Num(k) == [t |-> "number", n |-> k]
Obj(fields) == [t |-> "object", o |-> fields]
Arr(items) == [t |-> "array", a |-> items]
Bool(b) == [t |-> "boolean", b |-> b]

NoFields == [f \in {} |-> Undefined]

IsNullish(v) == v.t \in {"undefined", "null"}

\* ToBoolean, as applied by !x and by ||.
Truthy(v) ==
  CASE v.t \in {"undefined", "null"} -> FALSE
    [] v.t = "string" -> StrLen(v.s) > 0
    [] v.t = "number" -> v.n # 0
    [] OTHER -> TRUE

\* obj.name on a value that is not nullish: an absent property reads undefined.
Get(v, name) ==
  IF v.t = "object" /\ name \in DOMAIN v.o THEN v.o[name] ELSE Undefined

\* `${v}` inside a template literal (ToString of the language): an array is
\* its items joined by commas, a nullish item giving the empty string.
RECURSIVE TemplateString(_)
RECURSIVE ItemStrings(_)
TemplateString(v) ==
  CASE v.t = "string" -> v.s
    [] v.t = "undefined" -> T("undefined")
    [] v.t = "null" -> T("null")
    [] v.t = "number" -> T(ToString(v.n))
    [] v.t = "boolean" -> IF v.b THEN T("true") ELSE T("false")
    [] v.t = "array" -> ItemStrings(v.a)
    [] OTHER -> T("[object Object]")

ItemStrings(items) ==
  IF items = <<>> THEN <<>>
  ELSE (IF IsNullish(items[1]) THEN <<>> ELSE TemplateString(items[1]))
       \o (IF Len(items) = 1 THEN <<>> ELSE T(",") \o ItemStrings(Tail(items)))

(***************************************************************************)
(* Errors and completions.                                                 *)
(***************************************************************************)
HttpsError(code, message) == [class |-> "HttpsError", code |-> code, message |-> message]
TypeError(message) == [class |-> "TypeError", code |-> "", message |-> message]
ProviderError(message) == [class |-> "APIError", code |-> "", message |-> message]
StoreError(message) == [class |-> "FirestoreError", code |-> "", message |-> message]

Throw(e) == [k |-> "throw", e |-> e]
Normal(v) == [k |-> "normal", v |-> v]
Pending == [k |-> "pending"]

QuestionRequired == HttpsError("invalid-argument", "Question is required")
QuestionTooLong == HttpsError("invalid-argument", "Question too long (max 500 characters)")
InternalError == HttpsError("internal", "Failed to generate response")

(***************************************************************************)
(* askFollowup, first segment (lines 29-73).                               *)
(***************************************************************************)
\* Lines 30-38: destructuring and the two validation checks, in order.
\* A nullish payload cannot be destructured; a truthy question that is not
\* a string has no trim method.
\* Validate with the two checks of lines 32 and 36 in the other order.
ValidateLengthFirst(data) ==
  IF IsNullish(data) THEN Throw(TypeError("Cannot destructure property of data"))
  ELSE LET question == Get(data, "question") IN
    IF ~Truthy(question) THEN Throw(QuestionRequired)
    ELSE IF question.t # "string" THEN Throw(TypeError("question.trim is not a function"))
    ELSE IF StrLen(question.s) > MaxQuestionLength THEN Throw(QuestionTooLong)
    ELSE IF StrLen(Trim(question.s)) = 0 THEN Throw(QuestionRequired)
    ELSE Normal(question)

\* Validate with the length of line 36 measured after trimming.
ValidateTrimmedLength(data) ==
  IF IsNullish(data) THEN Throw(TypeError("Cannot destructure property of data"))
  ELSE LET question == Get(data, "question") IN
    IF ~Truthy(question) THEN Throw(QuestionRequired)
    ELSE IF question.t # "string" THEN Throw(TypeError("question.trim is not a function"))
    ELSE IF StrLen(Trim(question.s)) = 0 THEN Throw(QuestionRequired)
    ELSE IF StrLen(Trim(question.s)) > MaxQuestionLength THEN Throw(QuestionTooLong)
    ELSE Normal(question)

Validate(data) ==
  IF IsNullish(data) THEN Throw(TypeError("Cannot destructure property of data"))
  ELSE LET question == Get(data, "question") IN
    IF ~Truthy(question) THEN Throw(QuestionRequired)
    ELSE IF question.t # "string" THEN Throw(TypeError("question.trim is not a function"))
    ELSE IF StrLen(Trim(question.s)) = 0 THEN Throw(QuestionRequired)
    ELSE IF StrLen(question.s) > MaxQuestionLength THEN Throw(QuestionTooLong)
    ELSE Normal(question)

\* Lines 41-49: the fixed persona with its directives.
SystemPrompt ==
  T("You are a senior mining industry analyst assistant for Chole, a mining news platform. ")
  \o T("\nYou provide expert-level analysis and answers about mining industry news.")
  \o T("\n\nWhen answering:")
  \o T("\n- Be specific with numbers, companies, and technical details")
  \o T("\n- Provide industry context and implications")
  \o T("\n- Keep responses concise but informative (2-4 paragraphs max)")
  \o T("\n- If you don't know something, say so rather than speculating")
  \o T("\n- Reference specific data points from the article when relevant")

\* Line 56, the callback of map: b => `- ${b.text}`.
BulletLine(b) ==
  IF IsNullish(b) THEN Throw(TypeError("Cannot read properties of undefined (reading 'text')"))
  ELSE Normal(T("- ") \o TemplateString(Get(b, "text")))

\* Array.prototype.join: the items separated by sep.
RECURSIVE Join(_, _)
Join(texts, sep) ==
  IF texts = <<>> THEN <<>>
  ELSE IF Len(texts) = 1 THEN texts[1]
  ELSE texts[1] \o sep \o Join(Tail(texts), sep)

Placeholder == T("No bullet points available")

\* KeyPoints with ?? in place of ||: an empty list is not replaced.
KeyPointsNullishOnly(bullets) ==
  IF IsNullish(bullets) THEN Normal(Placeholder)
  ELSE IF bullets.t # "array" THEN Throw(TypeError("articleContext.bullets.map is not a function"))
  ELSE LET lines == [j \in 1..Len(bullets.a) |-> BulletLine(bullets.a[j])] IN
    IF \E j \in 1..Len(lines) : lines[j].k = "throw"
    THEN Throw(TypeError("Cannot read properties of undefined (reading 'text')"))
    ELSE Normal(Join([j \in 1..Len(lines) |-> lines[j].v], T("\n")))

\* Line 56: articleContext.bullets?.map(...).join('\n') || 'No bullet points available'.
KeyPoints(bullets) ==
  IF IsNullish(bullets) THEN Normal(Placeholder)
  ELSE IF bullets.t # "array" THEN Throw(TypeError("articleContext.bullets.map is not a function"))
  ELSE LET lines == [j \in 1..Len(bullets.a) |-> BulletLine(bullets.a[j])] IN
    IF \E j \in 1..Len(lines) : lines[j].k = "throw"
    THEN lines[CHOOSE j \in 1..Len(lines) :
                 /\ lines[j].k = "throw"
                 /\ \A h \in 1..(j - 1) : lines[h].k # "throw"]
    ELSE LET joined == Join([j \in 1..Len(lines) |-> lines[j].v], T("\n")) IN
      Normal(IF StrLen(joined) > 0 THEN joined ELSE Placeholder)

\* Lines 51-60: the user prompt.
UserPrompt(articleContext, question) ==
  IF IsNullish(articleContext)
  THEN Throw(TypeError("Cannot read properties of undefined (reading 'headline')"))
  ELSE LET points == KeyPoints(Get(articleContext, "bullets")) IN
    IF points.k = "throw" THEN points
    ELSE Normal(
      T("Article Context:\nHeadline: ") \o TemplateString(Get(articleContext, "headline"))
      \o T("\nSource: ") \o TemplateString(Get(articleContext, "source"))
      \o T("\nSummary: ") \o TemplateString(Get(articleContext, "summary"))
      \o T("\nKey Points:\n") \o points.v
      \o T("\n\nUser Question: ") \o TemplateString(question)
      \o T("\n\nPlease provide a helpful, expert-level response to this question about the mining news article."))

\* Lines 63-73: the argument of anthropic.messages.create.
ProviderRequest(userPrompt) ==
  [model |-> "claude-sonnet-4-20250514",
   max_tokens |-> MaxTokens,
   messages |-> <<[role |-> "user", content |-> userPrompt]>>,
   system |-> SystemPrompt]

\* Lines 29-63 up to the first await: a thrown error, or the request issued.
BeforeProviderCall(data) ==
  LET valid == Validate(data) IN
    IF valid.k = "throw" THEN valid
    ELSE LET prompt == UserPrompt(Get(data, "articleContext"), valid.v) IN
      IF prompt.k = "throw" THEN prompt
      ELSE Normal(ProviderRequest(prompt.v))

(***************************************************************************)
(* askFollowup, second segment (lines 75-84).                              *)
(***************************************************************************)
\* Line 75: message.content[0].text.
ExtractText(message) ==
  LET content == Get(message, "content") IN
    IF IsNullish(content) THEN Throw(TypeError("Cannot read properties of undefined (reading '0')"))
    ELSE LET first == IF content.t = "array" /\ Len(content.a) > 0 THEN content.a[1] ELSE Undefined IN
      IF IsNullish(first) THEN Throw(TypeError("Cannot read properties of undefined (reading 'text')"))
      ELSE Normal(Get(first, "text"))

\* LengthOf counting one more than the characters.
LengthOfPlusOne(v) ==
  CASE IsNullish(v) -> Throw(TypeError("Cannot read properties of undefined (reading 'length')"))
    [] v.t = "string" -> Normal(Num(StrLen(v.s) + 1))
    [] v.t = "array" -> Normal(Num(Len(v.a) + 1))
    [] OTHER -> Normal(Undefined)

\* Line 81: response.length.
LengthOf(v) ==
  CASE IsNullish(v) -> Throw(TypeError("Cannot read properties of undefined (reading 'length')"))
    [] v.t = "string" -> Normal(Num(StrLen(v.s)))
    [] v.t = "array" -> Normal(Num(Len(v.a)))
    [] OTHER -> Normal(Undefined)

\* UserId without the || fallback.
UserIdNoFallback(context) ==
  LET auth == Get(context, "auth")
  IN IF IsNullish(auth) THEN Undefined ELSE Get(auth, "uid")

\* Line 83: context.auth?.uid || 'anonymous'.
UserId(context) ==
  LET auth == Get(context, "auth")
      uid == IF IsNullish(auth) THEN Undefined ELSE Get(auth, "uid")
  IN IF Truthy(uid) THEN uid ELSE Str(T("anonymous"))

ServerTimestamp == [t |-> "sentinel", f |-> "serverTimestamp"]

\* Lines 78-84: the document handed to add().
InteractionDoc(data, context, response) ==
  LET len == LengthOf(response) IN
    IF len.k = "throw" THEN len
    ELSE Normal([articleId |-> Get(data, "articleId"),
                 question |-> Get(data, "question"),
                 responseLength |-> len.v,
                 timestamp |-> ServerTimestamp,
                 userId |-> UserId(context)])

\* Lines 75-78 after the provider call resolved with message.
AfterProviderCall(data, context, message) ==
  LET text == ExtractText(message) IN
    IF text.k = "throw" THEN text
    ELSE LET doc == InteractionDoc(data, context, text.v) IN
      IF doc.k = "throw" THEN doc
      ELSE Normal([response |-> text.v, doc |-> doc.v])

\* Lines 86-89.
SuccessResponse(response) == Obj([success |-> Bool(TRUE), response |-> response])

\* Catch rethrowing whatever it caught.
CatchRethrow(error) == error

\* Catch passing the message of the caught error to the caller.
CatchLeaksMessage(error) ==
  IF error.class = "HttpsError" THEN error ELSE HttpsError("internal", error.message)

\* Lines 91-99: what the catch block throws to the caller.
Catch(error) == IF error.class = "HttpsError" THEN error ELSE InternalError

(***************************************************************************)
(* askFollowup, third segment (lines 78-89), and the collection.           *)
(***************************************************************************)
\* How the add() of line 78 can settle: the document is written and the
\* promise resolves; the write is refused and the promise rejects; or the
\* document is written but the acknowledgement is lost and the promise rejects.
\* Any of the three may follow any document: the store's own validation of
\* the document is left open.
StoreResults == {"written", "rejected", "lostAck"}

\* AwaitAdd without the await: the write is fired and forgotten.
AwaitAddDetached(result) == Normal(Undefined)

\* Line 78: await db.collection('ai_interactions').add(doc), seen by the handler.
AwaitAdd(result) ==
  IF result = "written" THEN Normal(Undefined)
  ELSE Throw(StoreError("DEADLINE_EXCEEDED"))

\* AppendDoc writing to one fixed document instead of adding.
SetDoc(collection, entry) == <<entry>>

\* Line 78: the collection after add(); entry.by tags the writing invocation
\* (the collection gives every document an identifier of its own).
AppendDoc(collection, entry) == Append(collection, entry)

(***************************************************************************)
(* healthCheck (lines 105-107).                                            *)
(***************************************************************************)
Pad2(k) == IF k < 10 THEN "0" \o ToString(k) ELSE ToString(k)

Pad3(k) == IF k < 100 THEN "0" \o Pad2(k) ELSE ToString(k)

\* Date.prototype.toISOString for an instant in the first hour of the epoch,
\* given in milliseconds: YYYY-MM-DDTHH:mm:ss.sssZ.
ToISOString(ms) ==
  T("1970-01-01T00:" \o Pad2((ms \div 60000) % 60) \o ":" \o Pad2((ms \div 1000) % 60)
    \o "." \o Pad3(ms % 1000) \o "Z")

\* HealthPayload taking the status from the request when it carries one.
HealthPayloadEcho(req, now) ==
  Obj([status |-> IF IsNullish(Get(req, "status")) THEN Str(T("ok")) ELSE Get(req, "status"),
       timestamp |-> Str(ToISOString(now))])

\* Line 106: the body handed to res.json; req is not read.
HealthPayload(req, now) ==
  Obj([status |-> Str(T("ok")), timestamp |-> Str(ToISOString(now))])

(***************************************************************************)
(* State.                                                                  *)
(*   inv    one record per invocation of askFollowup: where it stands      *)
(*          (pc), its arguments, its locals, what the caller got (outcome), *)
(*          what console.error received (logged), and how its provider     *)
(*          call and its write settled (message, write)                    *)
(*   log    the documents of collection ai_interactions, in write order    *)
(*   health the body of the last healthCheck response                      *)
(***************************************************************************)
VARIABLES inv, log, health

vars == <<inv, log, health>>

Invocations == 1..NumInvocations

Idle ==
  [pc |-> "idle", data |-> Undefined, context |-> Undefined, request |-> Undefined,
   message |-> Pending, response |-> Undefined, doc |-> Undefined, write |-> "none",
   outcome |-> Pending, logged |-> Undefined]

Init ==
  /\ inv = [i \in Invocations |-> Idle]
  /\ log = <<>>
  /\ health = Undefined

\* Lines 91-99: console.error(error), then the error the caller receives.
Caught(state, error) ==
  [state EXCEPT !.pc = "done", !.outcome = Throw(Catch(error)), !.logged = error]

\* Lines 29-63: the platform calls the handler with (data, context).
Invoke(i, data, context) ==
  /\ inv[i].pc = "idle"
  /\ LET called == [inv[i] EXCEPT !.data = data, !.context = context]
         c == BeforeProviderCall(data)
     IN inv' = [inv EXCEPT ![i] =
                  IF c.k = "throw" THEN Caught(called, c.e)
                  ELSE [called EXCEPT !.pc = "awaitProvider", !.request = c.v]]
  /\ UNCHANGED <<log, health>>

\* Lines 63-78: the provider call settles with result, a message or an error.
ProviderSettles(i, result) ==
  /\ inv[i].pc = "awaitProvider"
  /\ LET settled == [inv[i] EXCEPT !.message = result]
         c == IF result.k = "throw" THEN result
              ELSE AfterProviderCall(inv[i].data, inv[i].context, result.v)
     IN inv' = [inv EXCEPT ![i] =
                  IF c.k = "throw" THEN Caught(settled, c.e)
                  ELSE [settled EXCEPT !.pc = "awaitStore",
                                       !.response = c.v.response, !.doc = c.v.doc]]
  /\ UNCHANGED <<log, health>>

\* Lines 78-89: the write settles with result; the handler returns or throws.
StoreSettles(i, result) ==
  /\ inv[i].pc = "awaitStore"
  /\ log' = IF result \in {"written", "lostAck"}
            THEN AppendDoc(log, [by |-> i, doc |-> inv[i].doc])
            ELSE log
  /\ LET settled == [inv[i] EXCEPT !.write = result]
         c == AwaitAdd(result)
     IN inv' = [inv EXCEPT ![i] =
                  IF c.k = "throw" THEN Caught(settled, c.e)
                  ELSE [settled EXCEPT !.pc = "done",
                                       !.outcome = Normal(SuccessResponse(inv[i].response))]]
  /\ UNCHANGED health

\* Lines 105-107: a request arrives at instant now.
HealthCheck(req, now) ==
  /\ health' = HealthPayload(req, now)
  /\ UNCHANGED <<inv, log>>

(***************************************************************************)
(* Inputs.                                                                 *)
(***************************************************************************)
Blank == Rep(" ", 1) \o Rep("\n", 1) \o Rep("\t", 1)

\* Questions on both sides of each validation check.
Questions ==
  { Undefined, Null, Num(0), Num(42),
    Str(<<>>), Str(Blank), Str(Rep(" ", MaxQuestionLength + 1)),
    Str(T("Why did output rise?")),
    Str(Rep(" ", 1) \o T("Why?") \o Rep("\n", 1)),
    Str(Rep("a", MaxQuestionLength)),
    Str(Rep("a", MaxQuestionLength + 1)),
    Str(Rep(" ", MaxQuestionLength \div 2) \o T("a") \o Rep(" ", MaxQuestionLength \div 2)) }

Bullets ==
  { Obj([text |-> Str(T("Production up 12%"))]),
    Obj([text |-> Str(T("New CEO appointed"))]),
    Obj(NoFields) }

BulletLists == UNION { [1..k -> Bullets] : k \in 0..MaxBullets }

ArticleContext(headline, bullets) ==
  Obj([headline |-> headline, source |-> Str(T("Mining Weekly")),
       summary |-> Str(T("Output rose in the third quarter.")), bullets |-> bullets])

ArticleContexts ==
  {Undefined, Obj(NoFields)}
  \cup { ArticleContext(Str(T("Copper output rises")), b) :
            b \in {Undefined, Null, Str(T("n/a")), Arr(<<Null>>)}
                  \cup { Arr(l) : l \in BulletLists } }

Payload(articleId, question, articleContext) ==
  Obj([articleId |-> articleId, question |-> question, articleContext |-> articleContext])

Payloads ==
  {Null}
  \cup { Payload(a, q, c) : a \in {Str(T("article-1")), Undefined},
                            q \in Questions, c \in ArticleContexts }

CallContexts ==
  { Obj([auth |-> Undefined]),
    Obj([auth |-> Obj([uid |-> Str(T("user-1"))])]),
    Obj([auth |-> Obj(NoFields)]) }

Message(blocks) == Obj([role |-> Str(T("assistant")), content |-> Arr(blocks)])

AnswerText == Message(<<Obj([text |-> Str(T("Answer text"))])>>)

ProviderResults ==
  { Normal(AnswerText),
    Normal(Message(<<Obj([type |-> Str(T("text")), text |-> Str(T("Grades fell.") \o Rep("\n", 2) \o T("Costs rose."))]),
                     Obj([type |-> Str(T("text")), text |-> Str(T("More."))])>>)),
    Normal(Message(<<Obj([type |-> Str(T("text")), text |-> Str(<<>>)])>>)),
    Normal(Message(<<>>)),
    Normal(Message(<<Obj([type |-> Str(T("tool_use"))])>>)),
    Normal(Obj(NoFields)),
    Throw(ProviderError("401 invalid x-api-key")),
    Throw(ProviderError("Connection error.")) }

HealthRequests == { Undefined, Obj([status |-> Str(T("down"))]) }

Instants == { 7, 61042 }

(***************************************************************************)
(* The inputs of the concurrent specification: one request per path        *)
(* through the handler.                                                    *)
(***************************************************************************)
TwoBullets ==
  Arr(<<Obj([text |-> Str(T("Production up 12%"))]), Obj([text |-> Str(T("New CEO appointed"))])>>)

CorePayloads ==
  { Null,
    Payload(Str(T("article-1")), Num(42), Undefined),
    Payload(Str(T("article-1")), Undefined,
            ArticleContext(Str(T("Copper output rises")), TwoBullets)),
    Payload(Str(T("article-1")), Str(Rep(" ", MaxQuestionLength + 1)),
            ArticleContext(Str(T("Copper output rises")), TwoBullets)),
    Payload(Str(T("article-1")), Str(Rep("a", MaxQuestionLength + 1)),
            ArticleContext(Str(T("Copper output rises")), TwoBullets)),
    Payload(Str(T("article-1")), Str(T("Why did output rise?")), Undefined),
    Payload(Str(T("article-1")), Str(T("Why did output rise?")),
            ArticleContext(Str(T("Copper output rises")), TwoBullets)) }

CoreCallContexts ==
  { Obj([auth |-> Undefined]), Obj([auth |-> Obj([uid |-> Str(T("user-1"))])]) }

CoreProviderResults ==
  { Normal(AnswerText),
    Normal(Message(<<>>)),
    Normal(Message(<<Obj([type |-> Str(T("tool_use"))])>>)),
    Throw(ProviderError("401 invalid x-api-key")),
    Throw(ProviderError("Connection error.")) }

(***************************************************************************)
(* Spec: NumInvocations invocations interleaved at their awaits, with      *)
(* health checks in between.                                               *)
(***************************************************************************)
Next ==
  \/ \E i \in Invocations, data \in CorePayloads, context \in CoreCallContexts :
       Invoke(i, data, context)
  \/ \E i \in Invocations, result \in CoreProviderResults : ProviderSettles(i, result)
  \/ \E i \in Invocations, result \in StoreResults : StoreSettles(i, result)
  \/ \E req \in HealthRequests, now \in Instants : HealthCheck(req, now)

Spec == Init /\ [][Next]_vars

(***************************************************************************)
(* SpecOne: one invocation, over every input.                              *)
(***************************************************************************)
NextOne ==
  \/ \E data \in Payloads, context \in CallContexts : Invoke(1, data, context)
  \/ \E result \in ProviderResults : ProviderSettles(1, result)
  \/ \E result \in StoreResults : StoreSettles(1, result)
  \/ \E req \in HealthRequests, now \in Instants : HealthCheck(req, now)

SpecOne == Init /\ [][NextOne]_vars

(***************************************************************************)
(* The handler run alone, start to finish, given how its provider call and *)
(* its write would settle: the reference for serial execution.             *)
(***************************************************************************)
RunAlone(data, context, providerResult, storeResult) ==
  LET a == BeforeProviderCall(data) IN
    IF a.k = "throw" THEN [outcome |-> Throw(Catch(a.e)), docs |-> <<>>]
    ELSE IF providerResult.k = "throw"
    THEN [outcome |-> Throw(Catch(providerResult.e)), docs |-> <<>>]
    ELSE LET b == AfterProviderCall(data, context, providerResult.v) IN
      IF b.k = "throw" THEN [outcome |-> Throw(Catch(b.e)), docs |-> <<>>]
      ELSE LET c == AwaitAdd(storeResult) IN
        [outcome |-> IF c.k = "throw" THEN Throw(Catch(c.e))
                     ELSE Normal(SuccessResponse(b.v.response)),
         docs |-> IF storeResult \in {"written", "lostAck"} THEN <<b.v.doc>> ELSE <<>>]

(***************************************************************************)
(* Vocabulary of the properties.                                           *)
(***************************************************************************)
\* The positions of the log written by invocation i.
EntriesBy(i) == { k \in 1..Len(log) : log[k].by = i }

Started(i) == inv[i].pc # "idle"

Done(i) == inv[i].pc = "done"

\* The provider was called in invocation i.
ProviderCalled(i) == inv[i].request # Undefined

ProviderFailed(i) == inv[i].message.k = "throw"

Succeeded(i) == inv[i].outcome.k = "normal"

QuestionOf(i) == Get(inv[i].data, "question")

BulletsOf(i) == Get(Get(inv[i].data, "articleContext"), "bullets")

\* Absent, empty, or nothing but whitespace.
IsBlank(q) ==
  \/ IsNullish(q)
  \/ q.t = "string" /\ \A k \in 1..Len(q.s) : q.s[k].s \in WhiteSpace

\* A string of 1 to 500 characters that is not blank.
IsValidQuestion(q) ==
  /\ q.t = "string"
  /\ ~IsBlank(q)
  /\ StrLen(q.s) <= MaxQuestionLength

\* The provider's message has a first content block carrying a text string.
HasFirstText(m) ==
  /\ m.t = "object" /\ "content" \in DOMAIN m.o
  /\ m.o.content.t = "array" /\ Len(m.o.content.a) > 0
  /\ m.o.content.a[1].t = "object" /\ "text" \in DOMAIN m.o.content.a[1].o
  /\ m.o.content.a[1].o.text.t = "string"

FirstText(m) == m.o.content.a[1].o.text

\* The provider call and the write of invocation i both succeeded.
AnsweredAndLogged(i) ==
  /\ Done(i)
  /\ inv[i].message.k = "normal"
  /\ HasFirstText(inv[i].message.v)
  /\ inv[i].write = "written"

\* The provider answered [{text: "Answer text"}] and the write succeeded.
AnswerTextLogged(i) ==
  /\ Done(i)
  /\ inv[i].message = Normal(AnswerText)
  /\ inv[i].write = "written"

HasUid(context) ==
  /\ Get(context, "auth").t = "object"
  /\ Get(Get(context, "auth"), "uid").t = "string"

ExpectedUserId(context) ==
  IF HasUid(context) THEN context.o.auth.o.uid ELSE Str(T("anonymous"))

\* The question was valid and the caller got an error.
FailedAfterValidation(i) ==
  /\ Done(i)
  /\ IsValidQuestion(QuestionOf(i))
  /\ inv[i].outcome.k = "throw"

\* bullets as the data model has it: absent, or a sequence of objects.
BulletsAbsentOrList(bullets) ==
  \/ IsNullish(bullets)
  \/ bullets.t = "array" /\ \A k \in 1..Len(bullets.a) : bullets.a[k].t = "object"

\* The text of a bullet; an absent text is interpolated as the word undefined.
RenderedText(b) ==
  IF "text" \in DOMAIN b.o /\ b.o.text.t = "string" THEN b.o.text.s ELSE T("undefined")

\* The bullets one per line, in order, written from the last line backwards.
RECURSIVE RenderedBullets(_)
RenderedBullets(items) ==
  IF Len(items) = 1 THEN T("- ") \o RenderedText(items[1])
  ELSE RenderedBullets(SubSeq(items, 1, Len(items) - 1))
         \o T("\n") \o T("- ") \o RenderedText(items[Len(items)])

ExpectedKeyPoints(bullets) ==
  IF IsNullish(bullets) \/ Len(bullets.a) = 0 THEN T("No bullet points available")
  ELSE RenderedBullets(bullets.a)

EndsWith(text, suffix) ==
  /\ Len(suffix) <= Len(text)
  /\ SubSeq(text, Len(text) - Len(suffix) + 1, Len(text)) = suffix

ClosingSentence ==
  T("\n\nPlease provide a helpful, expert-level response to this question about the mining news article.")

Alone(i) == RunAlone(inv[i].data, inv[i].context, inv[i].message, inv[i].write)

\* The documents written by the invocations run one after another in order.
RECURSIVE SerialDocs(_, _)
SerialDocs(order, k) ==
  IF k > NumInvocations THEN <<>>
  ELSE Alone(order[k]).docs \o SerialDocs(order, k + 1)

\* A sequence of documents as a multiset.
DocBag(docs) ==
  [d \in { docs[k] : k \in 1..Len(docs) } |->
     Cardinality({ k \in 1..Len(docs) : docs[k] = d })]

LogDocs == [k \in 1..Len(log) |-> log[k].doc]

AllDone == \A i \in Invocations : Done(i)

C2_LongQuestionTooLong ==
  \A i \in Invocations :
    (Started(i) /\ QuestionOf(i).t = "string" /\ StrLen(QuestionOf(i).s) > MaxQuestionLength)
      => /\ Done(i)
         /\ inv[i].outcome =
              Throw(HttpsError("invalid-argument", "Question too long (max 500 characters)"))
         /\ ~ProviderCalled(i)
         /\ EntriesBy(i) = {}

(***************************************************************************)
(* C2, amended: every question longer than 500 characters (measured before *)
(* trimming) that is not made of whitespace only is rejected with          *)
(* invalid-argument "Question too long (max 500 characters)", with no      *)
(* provider call and no record.                                            *)
(***************************************************************************)
C2_LongNonBlankQuestionTooLong ==
  \A i \in Invocations :
    (/\ Started(i) /\ QuestionOf(i).t = "string"
     /\ StrLen(QuestionOf(i).s) > MaxQuestionLength
     /\ ~IsBlank(QuestionOf(i)))
      => /\ Done(i)
         /\ inv[i].outcome =
              Throw(HttpsError("invalid-argument", "Question too long (max 500 characters)"))
         /\ ~ProviderCalled(i)
         /\ EntriesBy(i) = {}

\* A question of one letter between 250 spaces on each side was rejected as too long.
C2_Witness ==
  \E i \in Invocations :
    /\ Done(i)
    /\ QuestionOf(i) =
         Str(Rep(" ", MaxQuestionLength \div 2) \o T("a") \o Rep(" ", MaxQuestionLength \div 2))
    /\ inv[i].outcome = Throw(QuestionTooLong)

(***************************************************************************)
(* C3: when the provider call succeeds with a first content block of text  *)
(* T and the write succeeds, the handler returns {success: true,           *)
(* response: T} and the log holds exactly one record of the invocation,    *)
(* with the request's articleId and question, responseLength the length    *)
(* of T, and userId the caller's uid if there is one, else "anonymous".    *)
(***************************************************************************)
C3_SuccessReturnsTextAndLogsOnce ==
  \A i \in Invocations :
    AnsweredAndLogged(i)
      => /\ IsValidQuestion(QuestionOf(i))
         /\ inv[i].outcome =
              Normal(Obj([success |-> Bool(TRUE), response |-> FirstText(inv[i].message.v)]))
         /\ Cardinality(EntriesBy(i)) = 1
         /\ \A k \in EntriesBy(i) :
              /\ log[k].doc.articleId = Get(inv[i].data, "articleId")
              /\ log[k].doc.question = QuestionOf(i)
              /\ log[k].doc.responseLength = Num(StrLen(FirstText(inv[i].message.v).s))
              /\ log[k].doc.userId = ExpectedUserId(inv[i].context)

\* An authenticated caller got a non-empty answer and its record is in the log.
C3_Witness ==
  \E i \in Invocations :
    /\ AnsweredAndLogged(i)
    /\ HasUid(inv[i].context)
    /\ StrLen(FirstText(inv[i].message.v).s) > 0
    /\ Succeeded(i)
    /\ EntriesBy(i) # {}

(***************************************************************************)
(* C4, as claimed: for the provider response [{text: "Answer text"}] the   *)
(* handler returns {success: true, response: "Answer text"} and writes     *)
(* exactly one record, whose responseLength is 12.                         *)
(***************************************************************************)
C4_AnswerTextLength12 ==
  \A i \in Invocations :
    AnswerTextLogged(i)
      => /\ inv[i].outcome = Normal(SuccessResponse(Str(T("Answer text"))))
         /\ Cardinality(EntriesBy(i)) = 1
         /\ \A k \in EntriesBy(i) : log[k].doc.responseLength = Num(12)

(***************************************************************************)
(* C4, amended: for the provider response [{text: "Answer text"}] the      *)
(* handler returns {success: true, response: "Answer text"} and writes     *)
(* exactly one record, whose responseLength is 11, the number of           *)
(* characters of "Answer text".                                            *)
(***************************************************************************)
C4_AnswerTextLength11 ==
  \A i \in Invocations :
    AnswerTextLogged(i)
      => /\ inv[i].outcome = Normal(SuccessResponse(Str(T("Answer text"))))
         /\ Cardinality(EntriesBy(i)) = 1
         /\ \A k \in EntriesBy(i) : log[k].doc.responseLength = Num(11)

\* "Answer text" was returned and its record written.
C4_Witness ==
  \E i \in Invocations :
    /\ AnswerTextLogged(i)
    /\ Succeeded(i)
    /\ \E k \in EntriesBy(i) : log[k].doc.responseLength.t = "number"

\* An invocation whose provider call failed got the generic error and has no record.
C5_FailedCallsLeaveNoRecord ==
  \A i \in Invocations :
    ProviderFailed(i)
      => /\ Done(i)
         /\ inv[i].outcome = Throw(HttpsError("internal", "Failed to generate response"))
         /\ EntriesBy(i) = {}

\* The step in which a provider call fails leaves the log as it was.
C5_FailureKeepsLog ==
  (\E i \in Invocations : ~ProviderFailed(i) /\ ProviderFailed(i)') => log' = log

(***************************************************************************)
(* C5: an invocation whose provider call fails ends with the generic       *)
(* internal error and writes no record; the step in which a provider call  *)
(* fails leaves the log as it was, so repeated failures accumulate         *)
(* nothing.                                                                *)
(***************************************************************************)
C5_ProviderFailure == [](C5_FailedCallsLeaveNoRecord) /\ [][C5_FailureKeepsLog]_vars

\* Two provider calls failed, with different errors, and the log is as before.
C5_Witness ==
  /\ ProviderFailed(1) /\ ProviderFailed(2)
  /\ inv[1].logged # inv[2].logged
  /\ inv[1].outcome = Throw(InternalError) /\ inv[2].outcome = Throw(InternalError)
  /\ log = <<>>

(***************************************************************************)
(* C6: the steps of an invocation come in the order validate, compose,     *)
(* provider call, write, respond: the provider is called only for a valid  *)
(* question, a write is issued only after the provider answered, a success *)
(* response implies the invocation's record is in the log, and a failed    *)
(* write after a successful provider call gives the caller the generic     *)
(* internal error.                                                         *)
(***************************************************************************)
C6_RespondsAfterWrite ==
  \A i \in Invocations :
    /\ ProviderCalled(i) => IsValidQuestion(QuestionOf(i))
    /\ inv[i].message.k # "pending" => ProviderCalled(i)
    /\ (inv[i].pc = "awaitStore" \/ inv[i].write # "none" \/ EntriesBy(i) # {})
         => (ProviderCalled(i) /\ inv[i].message.k = "normal")
    /\ Succeeded(i)
         => (Done(i) /\ inv[i].write = "written" /\ Cardinality(EntriesBy(i)) = 1)
    /\ inv[i].write \in {"rejected", "lostAck"}
         => (Done(i) /\ inv[i].outcome = Throw(HttpsError("internal", "Failed to generate response")))

\* One invocation answered with its record logged; another's write was refused.
C6_Witness ==
  \E i, j \in Invocations :
    /\ Succeeded(i) /\ EntriesBy(i) # {}
    /\ inv[j].write = "rejected" /\ inv[j].outcome = Throw(InternalError)

(***************************************************************************)
(* C7: an invocation ends with the success response, with one of the two   *)
(* validation errors, or with the fixed internal error; two invocations    *)
(* that fail after validation give the caller the same error, whatever     *)
(* stage failed and whatever the failure carried.                          *)
(***************************************************************************)
C7_ThreeOutcomes ==
  /\ \A i \in Invocations :
       Done(i)
         => \/ /\ Succeeded(i)
               /\ inv[i].outcome.v.t = "object"
               /\ DOMAIN inv[i].outcome.v.o = {"success", "response"}
               /\ inv[i].outcome.v.o.success = Bool(TRUE)
            \/ inv[i].outcome = Throw(HttpsError("invalid-argument", "Question is required"))
            \/ inv[i].outcome =
                 Throw(HttpsError("invalid-argument", "Question too long (max 500 characters)"))
            \/ inv[i].outcome = Throw(HttpsError("internal", "Failed to generate response"))
  /\ \A i, j \in Invocations :
       (FailedAfterValidation(i) /\ FailedAfterValidation(j))
         => /\ inv[i].outcome = inv[j].outcome
            /\ inv[i].outcome.e.code = "internal"

\* One invocation failed composing its prompt, another at its write: same error.
C7_Witness ==
  \E i, j \in Invocations :
    /\ FailedAfterValidation(i) /\ FailedAfterValidation(j)
    /\ inv[i].logged.class = "TypeError" /\ ~ProviderCalled(i)
    /\ inv[j].logged.class = "FirestoreError"
    /\ inv[i].outcome = inv[j].outcome

(***************************************************************************)
(* C8: with a valid question and an articleContext object whose bullets    *)
(* are absent or a sequence, composing the prompt does not fail on absent  *)
(* fields; the key-points section is "No bullet points available" when     *)
(* bullets is absent or empty, and otherwise the bullets in input order,   *)
(* one "- <text>" per line, joined by newlines; the question follows it    *)
(* verbatim.                                                               *)
(***************************************************************************)
C8_KeyPointsSection ==
  \A i \in Invocations :
    (/\ Started(i)
     /\ inv[i].data.t = "object"
     /\ IsValidQuestion(QuestionOf(i))
     /\ Get(inv[i].data, "articleContext").t = "object"
     /\ BulletsAbsentOrList(BulletsOf(i)))
      => /\ ProviderCalled(i)
         /\ Len(inv[i].request.messages) = 1
         /\ EndsWith(inv[i].request.messages[1].content,
                     T("\nKey Points:\n") \o ExpectedKeyPoints(BulletsOf(i))
                       \o T("\n\nUser Question: ") \o QuestionOf(i).s \o ClosingSentence)

\* The two bullets of the spec's example were rendered in order.
C8_Witness ==
  \E i \in Invocations :
    /\ ProviderCalled(i)
    /\ BulletsOf(i) = TwoBullets
    /\ EndsWith(inv[i].request.messages[1].content,
                T("\nKey Points:\n") \o T("- ") \o T("Production up 12%") \o T("\n")
                  \o T("- ") \o T("New CEO appointed")
                  \o T("\n\nUser Question: ") \o QuestionOf(i).s \o ClosingSentence)

\* The last health response is {status: "ok", timestamp: <24-character ISO string>}.
C9_HealthPayloadOk ==
  health # Undefined
    => /\ health.t = "object"
       /\ DOMAIN health.o = {"status", "timestamp"}
       /\ health.o.status = Str(T("ok"))
       /\ health.o.timestamp.t = "string"
       /\ StrLen(health.o.timestamp.s) = 24

\* A step that answers a health check changes neither the log nor an invocation.
C9_HealthTouchesNothing == health' # health => (log' = log /\ inv' = inv)

(***************************************************************************)
(* C9: healthCheck answers every request, in every state, with status      *)
(* "ok" and a timestamp; it calls no provider and leaves the log and every *)
(* invocation as they were.                                                *)
(***************************************************************************)
C9_HealthAlwaysOk == [](C9_HealthPayloadOk) /\ [][C9_HealthTouchesNothing]_vars

\* A health check answered after one invocation succeeded and another failed.
C9_Witness ==
  /\ health # Undefined
  /\ Len(log) > 0
  /\ \E i, j \in Invocations : Succeeded(i) /\ inv[j].outcome = Throw(InternalError)

\* Outcomes and records are those of the invocations run alone, in any order.
C10_OutcomesIndependent ==
  /\ \A i \in Invocations :
       Done(i)
         => /\ inv[i].outcome = Alone(i).outcome
            /\ Cardinality(EntriesBy(i)) = Len(Alone(i).docs)
            /\ Succeeded(i) => Cardinality(EntriesBy(i)) = 1
            /\ (~IsValidQuestion(QuestionOf(i)) \/ ProviderFailed(i)) => EntriesBy(i) = {}
  /\ AllDone
       => \A order \in Permutations(Invocations) :
            DocBag(LogDocs) = DocBag(SerialDocs(order, 1))

\* A step keeps every record of the log where it was.
C10_LogOnlyGrows ==
  /\ Len(log') >= Len(log)
  /\ SubSeq(log', 1, Len(log)) = log

(***************************************************************************)
(* C10: under every interleaving an invocation's outcome is the one it     *)
(* has when run alone on its own request, caller and provider and store    *)
(* results; the log only grows; and once all invocations are done the      *)
(* records of the log are, as a multiset, those of the same invocations    *)
(* run one after another in any order: one per success, none for an        *)
(* invocation rejected by validation or failed at the provider call.       *)
(***************************************************************************)
C10_Interleaving == [](C10_OutcomesIndependent) /\ [][C10_LogOnlyGrows]_vars

\* All invocations wrote, the later-numbered one first, and one succeeded.
C10_Witness ==
  /\ AllDone
  /\ Len(log) = NumInvocations
  /\ log[1].by > log[2].by
  /\ \E i \in Invocations : Succeeded(i)

====
